---------------------------- MODULE Spec2Model ----------------------------
(***************************************************************************)
(* Model of the metric primitives of Formeln.py (annualized_return,        *)
(* volatility, maximum_drawdown, sharpe_ratio, omega_ratio, worst_month,   *)
(* tracking_error, beta, r_squared, up_correlation, down_correlation) and  *)
(* of the rolling evaluation whose output Dashboard.py reads.              *)
(*                                                                         *)
(* Every primitive converts its input with dtype=np.float64 and computes   *)
(* in binary floating point.  A float is modelled as a pair <<m, e>> with  *)
(* value m * 2^e, m odd (or <<0, 0>>), |m| < 2^Prec; every arithmetic      *)
(* operation rounds its exact result to the nearest such value, ties to    *)
(* even, as IEEE-754 does.  np.float64 has a 53 bit significand; the model *)
(* bounds the width by Prec.  The exponent range is not bounded.           *)
(***************************************************************************)
EXTENDS Integers, Sequences, FiniteSets, TLC

\* Width of the significand in bits (53 for np.float64).
Prec == 4

\* Longest return series drawn as an input.
MaxLen == 3

(***************************************************************************)
(* np.float64 values                                                       *)
(***************************************************************************)
NaN == <<0, 1>>
PInf == <<0, 2>>
NInf == <<0, 3>>
Zero == <<0, 0>>

IsNaN(x) == x = NaN
IsInf(x) == x = PInf \/ x = NInf

Abs(n) == IF n < 0 THEN -n ELSE n

RECURSIVE BitLen(_)
BitLen(n) == IF n = 0 THEN 0 ELSE 1 + BitLen(n \div 2)

\* The pair for m * 2^e with the trailing zero bits of m moved to e.
RECURSIVE Canon(_, _)
Canon(m, e) ==
  IF m = 0 THEN Zero
  ELSE IF m % 2 = 0 THEN Canon(m \div 2, e + 1)
  ELSE <<m, e>>

\* n * 2^e rounded to Prec significant bits, to nearest, ties to even.
Round(n, e) ==
  LET a == Abs(n)
      s == IF n < 0 THEN -1 ELSE 1
      k == BitLen(a) - Prec
  IN IF k <= 0 THEN Canon(n, e)
     ELSE LET q == a \div (2 ^ k)
              r == a % (2 ^ k)
              h == 2 ^ (k - 1)
              up == r > h \/ (r = h /\ q % 2 = 1)
          IN Canon(s * (IF up THEN q + 1 ELSE q), e + k)

\* A Python int or a literal as a float (exact: 12, 1000, 1 and 0 need no rounding).
FromInt(n) == Canon(n, 0)

\* Sign of a value: -1, 0 or 1 (NaN has none and is never asked).
Sign(x) ==
  IF x = PInf THEN 1
  ELSE IF x = NInf THEN -1
  ELSE IF x[1] > 0 THEN 1 ELSE IF x[1] < 0 THEN -1 ELSE 0

\* Two finite values further apart than this many binary places do not
\* interact: the smaller is below a quarter of the last place of the larger.
Far == 2 * Prec + 2

FNeg(x) ==
  IF IsNaN(x) THEN NaN
  ELSE IF x = PInf THEN NInf
  ELSE IF x = NInf THEN PInf
  ELSE <<-x[1], x[2]>>

FAdd(x, y) ==
  IF IsNaN(x) \/ IsNaN(y) THEN NaN
  ELSE IF IsInf(x) THEN (IF IsInf(y) /\ y # x THEN NaN ELSE x)
  ELSE IF IsInf(y) THEN y
  ELSE IF x = Zero THEN y
  ELSE IF y = Zero THEN x
  ELSE IF x[2] - y[2] > Far THEN x
  ELSE IF y[2] - x[2] > Far THEN y
  ELSE LET e == IF x[2] < y[2] THEN x[2] ELSE y[2]
       IN Round(x[1] * 2 ^ (x[2] - e) + y[1] * 2 ^ (y[2] - e), e)

FSub(x, y) == FAdd(x, FNeg(y))

FMul(x, y) ==
  IF IsNaN(x) \/ IsNaN(y) THEN NaN
  ELSE IF IsInf(x) \/ IsInf(y)
       THEN (IF Sign(x) * Sign(y) = 0 THEN NaN
             ELSE IF Sign(x) * Sign(y) > 0 THEN PInf ELSE NInf)
  ELSE Round(x[1] * y[1], x[2] + y[2])

\* x / y: the quotient is taken to 2 * Prec + 2 places, the last bit sticky.
FDiv(x, y) ==
  IF IsNaN(x) \/ IsNaN(y) THEN NaN
  ELSE IF IsInf(x) THEN (IF IsInf(y) THEN NaN
                         ELSE IF Sign(x) * Sign(y) >= 0 /\ Sign(x) > 0 THEN PInf
                         ELSE IF Sign(x) * Sign(y) >= 0 THEN NInf
                         ELSE IF Sign(x) > 0 THEN NInf ELSE PInf)
  ELSE IF IsInf(y) THEN Zero
  ELSE IF y = Zero THEN (IF x = Zero THEN NaN
                         ELSE IF Sign(x) > 0 THEN PInf ELSE NInf)
  ELSE IF x = Zero THEN Zero
  ELSE LET s == Sign(x) * Sign(y)
           num == Abs(x[1]) * 2 ^ Far
           den == Abs(y[1])
           q == num \div den
           st == IF num % den = 0 THEN 0 ELSE 1
       IN Round(s * (2 * q + st), x[2] - y[2] - Far - 1)

\* floor of the square root of a natural number
RECURSIVE ISqrt(_)
ISqrt(n) ==
  IF n < 2 THEN n
  ELSE LET r == 2 * ISqrt(n \div 4)
       IN IF (r + 1) * (r + 1) <= n THEN r + 1 ELSE r

\* np.sqrt: correctly rounded; NaN for a negative argument.
FSqrt(x) ==
  IF IsNaN(x) THEN NaN
  ELSE IF x = PInf THEN PInf
  ELSE IF x = NInf THEN NaN
  ELSE IF x = Zero THEN Zero
  ELSE IF x[1] < 0 THEN NaN
  ELSE LET t == IF x[2] % 2 = 0 THEN Far ELSE Far + 1
           n == x[1] * 2 ^ t
           r == ISqrt(n)
           st == IF r * r = n THEN 0 ELSE 1
       IN Round(2 * r + st, ((x[2] - t) \div 2) - 1)

\* Exact comparison of two values that are not NaN: the sign of x - y.
Cmp(x, y) ==
  IF x = y THEN 0
  ELSE IF x = PInf \/ y = NInf THEN 1
  ELSE IF x = NInf \/ y = PInf THEN -1
  ELSE IF x = Zero THEN -Sign(y)
  ELSE IF y = Zero THEN Sign(x)
  ELSE IF x[2] - y[2] > Far THEN Sign(x)
  ELSE IF y[2] - x[2] > Far THEN -Sign(y)
  ELSE LET e == IF x[2] < y[2] THEN x[2] ELSE y[2]
           d == x[1] * 2 ^ (x[2] - e) - y[1] * 2 ^ (y[2] - e)
       IN IF d > 0 THEN 1 ELSE IF d < 0 THEN -1 ELSE 0

\* The comparison operators of Python/numpy: every one is False on NaN.
FLt(x, y) == ~IsNaN(x) /\ ~IsNaN(y) /\ Cmp(x, y) < 0
FGt(x, y) == FLt(y, x)
FEq(x, y) == ~IsNaN(x) /\ ~IsNaN(y) /\ Cmp(x, y) = 0

\* np.maximum: NaN if either argument is NaN.
FMaximum(x, y) ==
  IF IsNaN(x) \/ IsNaN(y) THEN NaN
  ELSE IF Cmp(x, y) >= 0 THEN x ELSE y

(***************************************************************************)
(* numpy reductions and element-wise helpers                               *)
(***************************************************************************)
\* A return series is a sequence of np.float64 values; NaN marks a missing month.

\* returns[~np.isnan(returns)]
DropNaN(a) == SelectSeq(a, LAMBDA x : ~IsNaN(x))

\* np.isnan(a).all(): True for the empty array.
AllNaN(a) == \A i \in 1..Len(a) : IsNaN(a[i])

\* np.sum / np.add.reduce: starts from the identity 0 and adds in index order
\* (arrays shorter than 8 elements are not summed pairwise).
RECURSIVE NpSum(_)
NpSum(a) == IF a = <<>> THEN Zero
            ELSE FAdd(NpSum(SubSeq(a, 1, Len(a) - 1)), a[Len(a)])

\* np.prod / np.multiply.reduce: starts from the identity 1.
RECURSIVE NpProd(_)
NpProd(a) == IF a = <<>> THEN FromInt(1)
             ELSE FMul(NpProd(SubSeq(a, 1, Len(a) - 1)), a[Len(a)])

\* np.cumprod: the first element as it is, then the running product.
RECURSIVE NpCumprod(_)
NpCumprod(a) ==
  IF Len(a) <= 1 THEN a
  ELSE LET c == NpCumprod(SubSeq(a, 1, Len(a) - 1))
       IN Append(c, FMul(c[Len(c)], a[Len(a)]))

\* np.maximum.accumulate
RECURSIVE NpMaxAccumulate(_)
NpMaxAccumulate(a) ==
  IF Len(a) <= 1 THEN a
  ELSE LET c == NpMaxAccumulate(SubSeq(a, 1, Len(a) - 1))
       IN Append(c, FMaximum(c[Len(c)], a[Len(a)]))

\* np.nanmax / np.nanmin of an array: NaN entries are skipped; NaN when
\* nothing is left (numpy warns and returns NaN).
RECURSIVE NpNanMax(_)
NpNanMax(a) ==
  IF a = <<>> THEN NaN
  ELSE LET m == NpNanMax(SubSeq(a, 1, Len(a) - 1))
           x == a[Len(a)]
       IN IF IsNaN(x) THEN m
          ELSE IF IsNaN(m) THEN x
          ELSE IF Cmp(x, m) > 0 THEN x ELSE m

RECURSIVE NpNanMin(_)
NpNanMin(a) ==
  IF a = <<>> THEN NaN
  ELSE LET m == NpNanMin(SubSeq(a, 1, Len(a) - 1))
           x == a[Len(a)]
       IN IF IsNaN(x) THEN m
          ELSE IF IsNaN(m) THEN x
          ELSE IF Cmp(x, m) < 0 THEN x ELSE m

\* x ** k for an integer k >= 1, by repeated rounded multiplication.
RECURSIVE FPowInt(_, _)
FPowInt(x, k) == IF k = 1 THEN x ELSE FMul(FPowInt(x, k - 1), x)

\* cum_return ** (12 / n): 12 / n is an integer for the n that divide 12.  For
\* other n the exponent is no integer: numpy gives NaN for a negative base,
\* 0 and 1 stay as they are, and other bases are not modelled.
AnnualizePower(x, n) ==
  IF IsNaN(x) THEN NaN
  ELSE IF 12 % n = 0 THEN FPowInt(x, 12 \div n)
  ELSE CASE Sign(x) < 0 -> NaN
         [] x = Zero -> Zero
         [] x = FromInt(1) -> FromInt(1)

\* NpNanVar with the missing entries counted as observations of 0.
NpNanVar_imputed(a) ==
  LET arr == [i \in 1..Len(a) |-> IF IsNaN(a[i]) THEN Zero ELSE a[i]]
      cnt == Len(a)
      avg == FDiv(NpSum(arr), FromInt(cnt))
      dev == [i \in 1..Len(a) |-> FSub(arr[i], avg)]
      sqr == [i \in 1..Len(a) |-> FMul(dev[i], dev[i])]
  IN IF cnt - 1 <= 0 THEN NaN
     ELSE FDiv(NpSum(sqr), FromInt(cnt - 1))

\* The variance numpy computes with ddof=1 (np.var, and np.nanvar when some
\* entry is NaN): NaN entries are replaced by 0 for the sums and left out of
\* the count; the mean is sum / count; the squared deviations of the counted
\* entries are summed and divided by count - 1; NaN when count - 1 <= 0.
NpNanVar(a) ==
  LET arr == [i \in 1..Len(a) |-> IF IsNaN(a[i]) THEN Zero ELSE a[i]]
      cnt == Len(DropNaN(a))
      avg == FDiv(NpSum(arr), FromInt(cnt))
      dev == [i \in 1..Len(a) |-> IF IsNaN(a[i]) THEN Zero ELSE FSub(arr[i], avg)]
      sqr == [i \in 1..Len(a) |-> FMul(dev[i], dev[i])]
  IN IF cnt - 1 <= 0 THEN NaN
     ELSE FDiv(NpSum(sqr), FromInt(cnt - 1))

\* np.nanstd(a, ddof=1) and np.std(a, ddof=1)
NpNanStd(a) == FSqrt(NpNanVar(a))

\* a - b, element by element (the two arrays have the same length).
ElemSub(a, b) == [i \in 1..Len(a) |-> FSub(a[i], b[i])]

(***************************************************************************)
(* The metric primitives                                                   *)
(***************************************************************************)
annualized_return(rets) ==
  LET r == DropNaN(rets)
      cum_return == NpProd([i \in 1..Len(r) |-> FAdd(FromInt(1), r[i])])
  IN IF Len(r) = 0 THEN NaN
     ELSE FSub(AnnualizePower(cum_return, Len(r)), FromInt(1))

volatility(rets) == FMul(NpNanStd(rets), FSqrt(FromInt(12)))

maximum_drawdown(rets) ==
  LET cum_returns == NpCumprod([i \in 1..Len(rets) |->
                       FAdd(FromInt(1), IF IsNaN(rets[i]) THEN Zero ELSE rets[i])])
      running_max == NpMaxAccumulate(cum_returns)
      drawdowns == [i \in 1..Len(rets) |->
                       FSub(FromInt(1), FDiv(cum_returns[i], running_max[i]))]
  IN IF AllNaN(rets) THEN NaN
     ELSE NpNanMax(drawdowns)

\* risk_free_rate is a scalar or an array: [array |-> FALSE, rate |-> x] or
\* [array |-> TRUE, rates |-> <<...>>].
sharpe_ratio(rets, rf) ==
  LET excess_returns == ElemSub(rets, rf.rates)
      ann_excess_return ==
        IF rf.array THEN annualized_return(excess_returns)
        ELSE FSub(annualized_return(rets), rf.rate)
      vol == IF rf.array THEN volatility(excess_returns) ELSE volatility(rets)
  IN IF FEq(vol, Zero) \/ IsNaN(vol) THEN NaN
     ELSE FDiv(ann_excess_return, vol)

\* The value returned when the losses are zero.
OmegaSentinel == 1000

\* np.sum(np.maximum(returns - threshold, 0)) and
\* np.sum(np.maximum(threshold - returns, 0)) over the values that are not NaN.
OmegaGains(rets, thr) ==
  LET r == DropNaN(rets)
  IN NpSum([i \in 1..Len(r) |-> FMaximum(FSub(r[i], thr), Zero)])

OmegaLosses(rets, thr) ==
  LET r == DropNaN(rets)
  IN NpSum([i \in 1..Len(r) |-> FMaximum(FSub(thr, r[i]), Zero)])

\* omega_ratio without the check for zero losses.
omega_ratio_unguarded(rets, thr) ==
  IF Len(DropNaN(rets)) = 0 THEN NaN
  ELSE FDiv(OmegaGains(rets, thr), OmegaLosses(rets, thr))

omega_ratio(rets, thr) ==
  LET gains == OmegaGains(rets, thr)
      losses == OmegaLosses(rets, thr)
  IN IF Len(DropNaN(rets)) = 0 THEN NaN
     ELSE IF FEq(losses, Zero) THEN FromInt(OmegaSentinel)
     ELSE FDiv(gains, losses)

worst_month(rets) ==
  IF AllNaN(rets) THEN NaN ELSE NpNanMin(rets)

\* a[mask]: the entries of a at the positions where mask is TRUE.
RECURSIVE Compress(_, _)
Compress(a, mask) ==
  IF a = <<>> THEN <<>>
  ELSE LET c == Compress(SubSeq(a, 1, Len(a) - 1), SubSeq(mask, 1, Len(a) - 1))
       IN IF mask[Len(a)] THEN Append(c, a[Len(a)]) ELSE c

\* ~(np.isnan(returns) | np.isnan(benchmark_returns))
PairMask(rets, bench) == [i \in 1..Len(rets) |-> ~(IsNaN(rets[i]) \/ IsNaN(bench[i]))]

\* valid.sum()
CountTrue(mask) == Cardinality({i \in 1..Len(mask) : mask[i]})

\* x - x.mean(): the deviations np.cov takes (np.average over each row).
Deviations(a) ==
  LET avg == FDiv(NpSum(a), FromInt(Len(a)))
  IN [i \in 1..Len(a) |-> FSub(a[i], avg)]

\* One entry of np.cov(x, y, ddof=1): dot(X, X.T) * (1 / (n - 1)) on the deviations.
NpCovEntry(a, b) ==
  LET da == Deviations(a)
      db == Deviations(b)
      dot == NpSum([i \in 1..Len(a) |-> FMul(da[i], db[i])])
  IN FMul(dot, FDiv(FromInt(1), FromInt(Len(a) - 1)))

\* np.clip(c, -1, 1): NaN stays NaN.
Clip1(c) ==
  IF IsNaN(c) THEN NaN
  ELSE IF Cmp(c, FromInt(-1)) < 0 THEN FromInt(-1)
  ELSE IF Cmp(c, FromInt(1)) > 0 THEN FromInt(1)
  ELSE c

\* np.corrcoef(x, y)[0, 1]: the covariance divided by the standard deviation
\* of its row, then by that of its column, then clipped to [-1, 1].
NpCorrcoef01(a, b) ==
  LET c01 == NpCovEntry(a, b)
      sd0 == FSqrt(NpCovEntry(a, a))
      sd1 == FSqrt(NpCovEntry(b, b))
  IN Clip1(FDiv(FDiv(c01, sd0), sd1))

tracking_error(rets, bench) ==
  LET active_returns == DropNaN(ElemSub(rets, bench))
  IN IF Len(active_returns) <= 1 THEN NaN
     ELSE FMul(NpNanStd(active_returns), FSqrt(FromInt(12)))

beta(rets, bench) ==
  LET valid == PairMask(rets, bench)
      returns_valid == Compress(rets, valid)
      benchmark_valid == Compress(bench, valid)
      cov == NpCovEntry(returns_valid, benchmark_valid)
      var == NpNanVar(benchmark_valid)
  IN IF CountTrue(valid) <= 1 THEN NaN
     ELSE IF FEq(var, Zero) THEN NaN
     ELSE FDiv(cov, var)

r_squared(rets, bench) ==
  LET valid == PairMask(rets, bench)
      corr == NpCorrcoef01(Compress(rets, valid), Compress(bench, valid))
  IN IF CountTrue(valid) <= 1 THEN NaN
     ELSE FMul(corr, corr)

\* up_correlation without the restriction to positive benchmark returns.
up_correlation_unrestricted(rets, bench) ==
  LET valid == PairMask(rets, bench)
  IN IF CountTrue(valid) <= 1 THEN NaN
     ELSE NpCorrcoef01(Compress(rets, valid), Compress(bench, valid))

up_correlation(rets, bench) ==
  LET mask == [i \in 1..Len(bench) |-> FGt(bench[i], Zero)]
      valid == [i \in 1..Len(bench) |-> mask[i] /\ PairMask(rets, bench)[i]]
  IN IF CountTrue(valid) <= 1 THEN NaN
     ELSE NpCorrcoef01(Compress(rets, valid), Compress(bench, valid))

down_correlation(rets, bench) ==
  LET mask == [i \in 1..Len(bench) |-> FLt(bench[i], Zero)]
      valid == [i \in 1..Len(bench) |-> mask[i] /\ PairMask(rets, bench)[i]]
  IN IF CountTrue(valid) <= 1 THEN NaN
     ELSE NpCorrcoef01(Compress(rets, valid), Compress(bench, valid))

(***************************************************************************)
(* The rolling evaluation.  Dashboard.py plots fonds_daten[kpi]['{W}M'],   *)
(* one value per date and fund, computed by Datenberechnen.py, which is    *)
(* not part of the sources: the evaluation is modelled from section 4.2 of *)
(* the specification.                                                      *)
(***************************************************************************)
\* The metric kpi on one window slice (Omega with its default threshold).
\* Rendite and Sharpe raise to the power 12 / W, which is no integer for the
\* window lengths of the model, and are not rolled here.
Metric(k, slice) ==
  CASE k = "Vola" -> volatility(slice)
    [] k = "MaxDD" -> maximum_drawdown(slice)
    [] k = "WorstMonth" -> worst_month(slice)
    [] k = "Omega" -> omega_ratio(slice, Zero)

\* RollingValue over an expanding window: all months up to date d.
RollingValue_expanding(k, history, w, d) ==
  IF d < w THEN NaN
  ELSE Metric(k, SubSeq(history, 1, d))

\* The value at date d (the d-th month of the history) for window w: undefined
\* until w months are available, then the metric of the trailing w months.
RollingValue(k, history, w, d) ==
  IF d < w THEN NaN
  ELSE Metric(k, SubSeq(history, d - w + 1, d))

(***************************************************************************)
(* State: the series held, and the last call: its metric, its other        *)
(* arguments (defaults when the metric takes none) and its result; for the *)
(* rolling evaluation the window, the dates done and the output series.    *)
(***************************************************************************)
VARIABLES returns, benchmark_returns, risk_free_rate, threshold, kpi, value,
          window, date, series

vars == <<returns, benchmark_returns, risk_free_rate, threshold, kpi, value,
          window, date, series>>

inputs == <<returns, benchmark_returns, window, date, series>>

\* All sequences over S of length 0..n
RECURSIVE SeqsUpTo(_, _)
SeqsUpTo(S, n) ==
  IF n = 0 THEN {<<>>}
  ELSE LET T == SeqsUpTo(S, n - 1)
       IN T \cup {Append(t, x) : t \in {u \in T : Len(u) = n - 1}, x \in S}

SeqsOfLen(S, n) == {t \in SeqsUpTo(S, n) : Len(t) = n}

\* Monthly returns drawn as inputs: missing, 0, 7/8, -1/2, -1 (total loss),
\* -2 (level below zero) and -1/1024.
ReturnVals == {NaN, Zero, <<7, -3>>, <<-1, -1>>, <<-1, 0>>, <<-1, 1>>, <<-1, -10>>}

\* Thresholds of omega_ratio: the default 0, -1/1024 and 7/8.
Thresholds == {Zero, <<-1, -10>>, <<7, -3>>}

\* Scalar risk-free rates and the entries of a risk-free series.
RfScalars == {Zero, <<1, -7>>}
RfSeriesVals == {NaN, <<1, -7>>}

\* Fund and benchmark returns of the two-series metrics.
FundVals == {NaN, Zero, <<7, -3>>}
BenchVals == {NaN, <<7, -3>>, <<1, -2>>, <<-1, -1>>, <<-7, -3>>}

NoRate == [array |-> FALSE, rate |-> Zero, rates |-> <<>>]
ScalarRate(x) == [array |-> FALSE, rate |-> x, rates |-> <<>>]
ArrayRate(a) == [array |-> TRUE, rate |-> Zero, rates |-> a]

NoCall ==
  /\ risk_free_rate = NoRate
  /\ threshold = Zero
  /\ kpi = "none"
  /\ value = NaN

NoRolling == window = 0 /\ date = 0 /\ series = <<>>

\* One series of any length up to MaxLen, for the metrics of a single series.
InitSingle ==
  /\ returns \in SeqsUpTo(ReturnVals, MaxLen)
  /\ benchmark_returns = <<>>
  /\ NoCall
  /\ NoRolling

\* A fund series and its benchmark series, aligned to the same dates.
InitPair ==
  /\ \E n \in 1..MaxLen :
       /\ returns \in SeqsOfLen(FundVals, n)
       /\ benchmark_returns \in SeqsOfLen(BenchVals, n)
  /\ NoCall
  /\ NoRolling

Init == InitSingle \/ InitPair

\* A call of a metric that takes no threshold and no risk-free rate.
Call(name, result) ==
  /\ kpi = "none"
  /\ kpi' = name
  /\ value' = result
  /\ risk_free_rate' = NoRate
  /\ threshold' = Zero
  /\ UNCHANGED inputs

\* A metric of one series is called with the series alone.
Call_annualized_return ==
  /\ benchmark_returns = <<>>
  /\ Call("Rendite", annualized_return(returns))

Call_volatility ==
  /\ benchmark_returns = <<>>
  /\ Call("Vola", volatility(returns))

Call_maximum_drawdown ==
  /\ benchmark_returns = <<>>
  /\ Call("MaxDD", maximum_drawdown(returns))

Call_worst_month ==
  /\ benchmark_returns = <<>>
  /\ Call("WorstMonth", worst_month(returns))

Call_omega_ratio ==
  /\ benchmark_returns = <<>>
  /\ kpi = "none"
  /\ \E t \in Thresholds :
       /\ kpi' = "Omega"
       /\ threshold' = t
       /\ value' = omega_ratio(returns, t)
       /\ risk_free_rate' = NoRate
       /\ UNCHANGED inputs

Call_sharpe_ratio_scalar ==
  /\ benchmark_returns = <<>>
  /\ kpi = "none"
  /\ \E x \in RfScalars :
       /\ kpi' = "Sharpe"
       /\ risk_free_rate' = ScalarRate(x)
       /\ value' = sharpe_ratio(returns, ScalarRate(x))
       /\ threshold' = Zero
       /\ UNCHANGED inputs

Call_sharpe_ratio_array ==
  /\ benchmark_returns = <<>>
  /\ kpi = "none"
  /\ \E a \in SeqsOfLen(RfSeriesVals, Len(returns)) :
       /\ kpi' = "Sharpe"
       /\ risk_free_rate' = ArrayRate(a)
       /\ value' = sharpe_ratio(returns, ArrayRate(a))
       /\ threshold' = Zero
       /\ UNCHANGED inputs

\* A metric against the benchmark needs two arrays of one shape: numpy raises
\* on arrays that do not broadcast.
Call_tracking_error ==
  /\ Len(benchmark_returns) = Len(returns)
  /\ Call("TE", tracking_error(returns, benchmark_returns))

Call_beta ==
  /\ Len(benchmark_returns) = Len(returns)
  /\ Call("Beta", beta(returns, benchmark_returns))

Call_r_squared ==
  /\ Len(benchmark_returns) = Len(returns)
  /\ Call("R2", r_squared(returns, benchmark_returns))

Call_up_correlation ==
  /\ Len(benchmark_returns) = Len(returns)
  /\ Call("UpKorr", up_correlation(returns, benchmark_returns))

Call_down_correlation ==
  /\ Len(benchmark_returns) = Len(returns)
  /\ Call("DownKorr", down_correlation(returns, benchmark_returns))

Next ==
  \/ Call_annualized_return
  \/ Call_volatility
  \/ Call_maximum_drawdown
  \/ Call_worst_month
  \/ Call_omega_ratio
  \/ Call_sharpe_ratio_scalar
  \/ Call_sharpe_ratio_array
  \/ Call_tracking_error
  \/ Call_beta
  \/ Call_r_squared
  \/ Call_up_correlation
  \/ Call_down_correlation

\* The metric primitives, each called once on arguments drawn at the start.
Spec == Init /\ [][Next]_vars

(***************************************************************************)
(* Rolling evaluation: one date after the other                            *)
(***************************************************************************)
\* Longest history and longest window of the rolling evaluation (the
\* dashboard's windows are 12, 24, 36 and 60 months).
MaxHist == 4
MaxWindow == 5

HistVals == {NaN, <<7, -3>>, <<-1, -1>>}
RolledKpis == {"Vola", "MaxDD", "WorstMonth", "Omega"}

InitRolling ==
  /\ returns \in SeqsUpTo(HistVals, MaxHist)
  /\ benchmark_returns = <<>>
  /\ risk_free_rate = NoRate
  /\ threshold = Zero
  /\ kpi \in RolledKpis
  /\ value = NaN
  /\ window \in 2..MaxWindow
  /\ date = 0
  /\ series = <<>>

\* The evaluator computes the value of the next date and appends it.
EvaluateDate ==
  /\ date < Len(returns)
  /\ date' = date + 1
  /\ value' = RollingValue(kpi, returns, window, date + 1)
  /\ series' = Append(series, value')
  /\ UNCHANGED <<returns, benchmark_returns, risk_free_rate, threshold, kpi, window>>

NextRolling == EvaluateDate

SpecRolling == InitRolling /\ [][NextRolling]_vars
(***************************************************************************)
(* Properties                                                              *)
(***************************************************************************)
One == FromInt(1)

IsFinite(x) == ~IsNaN(x) /\ ~IsInf(x)

\* x <= y and x >= y on floats (False on NaN)
FLe(x, y) == ~IsNaN(x) /\ ~IsNaN(y) /\ Cmp(x, y) <= 0
FGe(x, y) == FLe(y, x)

AllEqual(a) == \A i, j \in 1..Len(a) : a[i] = a[j]

\* The values of a series that are not missing.
Present(a) == DropNaN(a)

\* The fund and benchmark values at the positions where both have a value.
UsableFund == Compress(returns, PairMask(returns, benchmark_returns))
UsableBench == Compress(benchmark_returns, PairMask(returns, benchmark_returns))

\* a with a missing month inserted after position pos (pos = 0: in front).
InsertMissing(a, pos) == SubSeq(a, 1, pos) \o <<NaN>> \o SubSeq(a, pos + 1, Len(a))

\* C1: for every return series with at least one non-missing value,
\* maximum_drawdown returns a value in [0, 1], and exactly 0 when every
\* non-missing return is >= 0 (returns <= -1 included).
C1_MaxDrawdownInUnitInterval ==
  (kpi = "MaxDD" /\ ~AllNaN(returns)) =>
     /\ FGe(value, Zero)
     /\ FLe(value, One)
     /\ (\A i \in 1..Len(returns) : IsNaN(returns[i]) \/ FGe(returns[i], Zero))
          => value = Zero

\* C2: with the returns fixed, omega_ratio does not decrease when the
\* threshold decreases: t1 <= t2 implies omega_ratio(returns, t1) >=
\* omega_ratio(returns, t2), the sentinel cases included.
C2_OmegaMonotoneInThreshold ==
  (kpi = "Omega" /\ ~AllNaN(returns)) =>
     \A t1 \in Thresholds :
        FLe(t1, threshold) => FGe(omega_ratio(returns, t1), value)

\* C3: whenever the sum of losses is > 0, omega_ratio returns a ratio strictly
\* below the zero-loss sentinel 1000.
C3_SentinelAboveEveryRatio ==
  (kpi = "Omega" /\ FGt(OmegaLosses(returns, threshold), Zero)) =>
     FLt(value, FromInt(OmegaSentinel))

\* C4 as stated: whenever the sum of losses below the threshold is zero,
\* omega_ratio returns the sentinel 1000, also for a series with no
\* non-missing value.
C4_ZeroLossesGiveSentinel ==
  (kpi = "Omega" /\ FEq(OmegaLosses(returns, threshold), Zero)) =>
     value = FromInt(OmegaSentinel)

\* C4 as amended: for a series with at least one non-missing value, whenever
\* the sum of losses is zero omega_ratio returns the sentinel 1000 (a finite
\* value, also when the gains are zero too); a series with no non-missing
\* value gives NaN.
C4_ZeroLossesGiveSentinelNonEmpty ==
  kpi = "Omega" =>
     /\ (Len(Present(returns)) > 0 /\ FEq(OmegaLosses(returns, threshold), Zero))
          => (value = FromInt(OmegaSentinel) /\ IsFinite(value))
     /\ Len(Present(returns)) = 0 => IsNaN(value)

\* C4, the case reached: every non-missing return equals a non-zero
\* threshold (gains and losses both zero) and the sentinel is returned.
C4_Witness ==
  /\ kpi = "Omega"
  /\ threshold # Zero
  /\ Len(Present(returns)) >= 2
  /\ \A i \in 1..Len(Present(returns)) : Present(returns)[i] = threshold
  /\ FEq(OmegaGains(returns, threshold), Zero)
  /\ value = FromInt(OmegaSentinel)

\* A series with at least 2 non-missing values, all of them equal.
ConstantSeries(a) == Len(Present(a)) >= 2 /\ AllEqual(Present(a))

\* C5: for every series whose non-missing values (at least 2) are all equal,
\* volatility returns 0 and sharpe_ratio returns NaN, for a scalar risk-free
\* rate and for a risk-free series that leaves the excess returns all equal.
C5_ZeroVarianceVolatilityAndSharpe ==
  /\ (kpi = "Vola" /\ ConstantSeries(returns)) => value = Zero
  /\ (kpi = "Sharpe" /\ ConstantSeries(returns)
        /\ (risk_free_rate.array =>
              AllEqual(Present(ElemSub(returns, risk_free_rate.rates)))))
       => IsNaN(value)

\* C6: whenever the benchmark values at the usable positions are all equal
\* (zero sample variance) beta and r_squared return NaN; and a defined
\* r_squared lies in [0, 1].
C6_ZeroVarianceBenchmarkUndefined ==
  /\ (kpi \in {"Beta", "R2"} /\ AllEqual(UsableBench)) => IsNaN(value)
  /\ (kpi = "R2" /\ ~IsNaN(value)) => (FGe(value, Zero) /\ FLe(value, One))

\* The annualized sample standard deviation of values none of which is
\* missing: the mean over the n values, the squared deviations summed and
\* divided by n - 1, the root times the root of 12.
SampleStd12(a) ==
  LET n == Len(a)
      mean == FDiv(NpSum(a), FromInt(n))
      sq == [i \in 1..n |-> FMul(FSub(a[i], mean), FSub(a[i], mean))]
  IN IF n < 2 THEN NaN
     ELSE FMul(FSqrt(FDiv(NpSum(sq), FromInt(n - 1))), FSqrt(FromInt(12)))

\* C7: missing observations are excluded, never counted as zero.  The result
\* of annualized_return, volatility, omega_ratio and worst_month is the result
\* on the series with its missing entries removed; the result of
\* tracking_error, beta, r_squared, up_correlation and down_correlation is the
\* result on the positions where both series have a value; the standard
\* deviations divide by n - 1 over what remains.
C7_MissingExcluded ==
  /\ kpi = "Rendite" => value = annualized_return(Present(returns))
  /\ kpi = "Vola" => /\ value = volatility(Present(returns))
                     /\ value = SampleStd12(Present(returns))
  /\ kpi = "Omega" => value = omega_ratio(Present(returns), threshold)
  /\ kpi = "WorstMonth" => value = worst_month(Present(returns))
  /\ kpi = "TE" => /\ value = tracking_error(UsableFund, UsableBench)
                   /\ value = SampleStd12(ElemSub(UsableFund, UsableBench))
  /\ kpi = "Beta" => value = beta(UsableFund, UsableBench)
  /\ kpi = "R2" => value = r_squared(UsableFund, UsableBench)
  /\ kpi = "UpKorr" => value = up_correlation(UsableFund, UsableBench)
  /\ kpi = "DownKorr" => value = down_correlation(UsableFund, UsableBench)

\* C7, the case reached: the fund misses a month the benchmark has, two
\* pairs remain, and the tracking error is a positive number.
C7_Witness ==
  /\ kpi = "TE"
  /\ Len(returns) = 3
  /\ \E i \in 1..3 : IsNaN(returns[i]) /\ ~IsNaN(benchmark_returns[i])
  /\ Len(UsableFund) = 2
  /\ FGt(value, Zero)

\* The number of observations a call can use: the values that are not
\* missing (of the excess returns when the risk-free rate is a series), the
\* pairs with both values, for up/down correlation those pairs whose
\* benchmark return is > 0 / < 0.
UsableCount ==
  CASE kpi \in {"Rendite", "Vola", "MaxDD", "WorstMonth", "Omega"} ->
         Len(Present(returns))
    [] kpi = "Sharpe" ->
         IF risk_free_rate.array
         THEN Len(Present(ElemSub(returns, risk_free_rate.rates)))
         ELSE Len(Present(returns))
    [] kpi \in {"TE", "Beta", "R2"} -> Len(UsableFund)
    [] kpi = "UpKorr" ->
         Cardinality({i \in 1..Len(UsableBench) : FGt(UsableBench[i], Zero)})
    [] kpi = "DownKorr" ->
         Cardinality({i \in 1..Len(UsableBench) : FLt(UsableBench[i], Zero)})

VarianceBased == {"Vola", "Sharpe", "TE", "Beta", "R2", "UpKorr", "DownKorr"}

\* C8: every primitive returns NaN when its usable sample is empty, and the
\* variance-based primitives return NaN when fewer than 2 usable points
\* remain.
C8_InsufficientDataUndefined ==
  kpi # "none" =>
     /\ UsableCount = 0 => IsNaN(value)
     /\ (kpi \in VarianceBased /\ UsableCount < 2) => IsNaN(value)

\* C8, the case reached: two usable pairs of which only one has a positive
\* benchmark return, and up_correlation is undefined.
C8_Witness ==
  /\ kpi = "UpKorr"
  /\ Len(UsableFund) >= 2
  /\ UsableCount = 1
  /\ IsNaN(value)

\* Two histories agree on the w months ending at date d.
AgreeOnWindow(h1, h2, w, d) ==
  \A i \in 1..Len(h1) : (d - w < i /\ i <= d) => h1[i] = h2[i]

\* C9: the value at date D for window W depends only on the W months ending
\* at D: every history that agrees with the evaluated one on those months
\* gives the same value at D; and a date with fewer than W months available
\* has an undefined value.
C9_NoLookAhead ==
  date >= 1 =>
     /\ series[date] = value
     /\ date < window => IsNaN(series[date])
     /\ \A h \in SeqsOfLen(HistVals, Len(returns)) :
          AgreeOnWindow(returns, h, window, date)
            => RollingValue(kpi, h, window, date) = series[date]

\* C9, the case reached: four months of history, window 3: the dates before
\* the third are undefined, the last date has a value, and the month outside
\* its window is a different return from the months inside.
C9_Witness ==
  /\ Len(returns) = 4 /\ window = 3 /\ date = 4
  /\ kpi = "Vola"
  /\ IsNaN(series[1]) /\ IsNaN(series[2])
  /\ ~IsNaN(series[4]) /\ series[4] # Zero
  /\ returns[1] # returns[2]

\* C10: for every series with at least one non-missing value, inserting a
\* missing observation at any position, in front of the first return
\* included, leaves maximum_drawdown unchanged.
C10_MissingMonthLeavesDrawdownUnchanged ==
  (kpi = "MaxDD" /\ ~AllNaN(returns)) =>
     \A pos \in 0..Len(returns) :
        maximum_drawdown(InsertMissing(returns, pos)) = value
=============================================================================
